---- MODULE Spec2Model ----
(***************************************************************************)
(* State-machine model of backend/app/main.py: the in-memory Dataset       *)
(* Store (DATAFRAME), the /upload and /ask coroutines on one asyncio event *)
(* loop, and the handlers they call (intent classifier, rule engine,       *)
(* fallback responder, trend analyzer, forecaster).                        *)
(*                                                                         *)
(* Conventions.  Strings the code inspects character by character (the     *)
(* question) are sequences of one-character strings.  A pandas cell is a   *)
(* record [isna, v]; numbers are integers counting thousandths, so that    *)
(* the ".2f" formatting is a real rounding.  Timestamps are integers       *)
(* counting hours, a calendar day is ts \div 24.  A Python dict is a       *)
(* function from its keys; a text is a record [fmt, args] holding the      *)
(* format string of the f-string and its formatted arguments.              *)
(***************************************************************************)
EXTENDS Integers, Sequences, FiniteSets, TLC

VARIABLES DATAFRAME, OPENAI_API_KEY, gen, up, ask, fn

vars == <<DATAFRAME, OPENAI_API_KEY, gen, up, ask, fn>>

\* ------------------------------------------------------------------ bounds
\* Longest CSV body (in rows) drawn for the handler-level specification.
MaxRows == 3
\* Successful uploads in one behaviour of the server.
MaxUploads == 2

\* ----------------------------------------------------------- characters
UpperCase == <<"A","B","C","D","E","F","G","H","I","J","K","L","M","N","O","P","Q","R","S","T","U","V","W","X","Y","Z">>
LowerCase == <<"a","b","c","d","e","f","g","h","i","j","k","l","m","n","o","p","q","r","s","t","u","v","w","x","y","z">>

\* str.lower() on one character.
LowerChar(c) ==
    IF \E i \in 1..Len(UpperCase) : UpperCase[i] = c
    THEN LowerCase[CHOOSE i \in 1..Len(UpperCase) : UpperCase[i] = c]
    ELSE c

\* str.lower()
Lower(s) == [i \in 1..Len(s) |-> LowerChar(s[i])]

\* Python's "k in q" on strings: k is a contiguous substring of q.
Contains(q, k) ==
    \E i \in 1..(Len(q) - Len(k) + 1) : SubSeq(q, i, i + Len(k) - 1) = k

\* ------------------------------------------------------------- keywords
K_forecast == <<"f","o","r","e","c","a","s","t">>
K_predict == <<"p","r","e","d","i","c","t">>
K_projection == <<"p","r","o","j","e","c","t","i","o","n">>
K_next_ == <<"n","e","x","t"," ">>
K_trend == <<"t","r","e","n","d">>
K_over_time == <<"o","v","e","r"," ","t","i","m","e">>
K_time_series == <<"t","i","m","e"," ","s","e","r","i","e","s">>
K_by_day == <<"b","y"," ","d","a","y">>
K_by_month == <<"b","y"," ","m","o","n","t","h">>
K_chart == <<"c","h","a","r","t">>
K_plot == <<"p","l","o","t">>
K_graph == <<"g","r","a","p","h">>
K_total == <<"t","o","t","a","l">>
K_quantity == <<"q","u","a","n","t","i","t","y">>
K_highest == <<"h","i","g","h","e","s","t">>
K_flow == <<"f","l","o","w">>
K_flowrate == <<"f","l","o","w","r","a","t","e">>
K_count == <<"c","o","u","n","t">>
K_shipments == <<"s","h","i","p","m","e","n","t","s">>
K_shipment == <<"s","h","i","p","m","e","n","t">>

ForecastKeywords == {K_forecast, K_predict, K_projection, K_next_}
TrendKeywords == {K_trend, K_over_time, K_time_series, K_by_day, K_by_month, K_chart, K_plot, K_graph}

\* ------------------------------------------------------------ questions
\* 'Predict the trend'
Q1 == <<"P","r","e","d","i","c","t"," ","t","h","e"," ","t","r","e","n","d">>
\* 'FORECAST total quantity'
Q2 == <<"F","O","R","E","C","A","S","T"," ","t","o","t","a","l"," ","q","u","a","n","t","i","t","y">>
\* 'next week'
Q3 == <<"n","e","x","t"," ","w","e","e","k">>
\* 'what is next'
Q4 == <<"w","h","a","t"," ","i","s"," ","n","e","x","t">>
\* 'Plot highest flow'
Q5 == <<"P","l","o","t"," ","h","i","g","h","e","s","t"," ","f","l","o","w">>
\* 'Total Quantity'
Q6 == <<"T","o","t","a","l"," ","Q","u","a","n","t","i","t","y">>
\* 'highest flow'
Q7 == <<"h","i","g","h","e","s","t"," ","f","l","o","w">>
\* 'total highest flow quantity'
Q8 == <<"t","o","t","a","l"," ","h","i","g","h","e","s","t"," ","f","l","o","w"," ","q","u","a","n","t","i","t","y">>
\* 'count shipments'
Q9 == <<"c","o","u","n","t"," ","s","h","i","p","m","e","n","t","s">>
\* 'Highest FlowRate count'
Q10 == <<"H","i","g","h","e","s","t"," ","F","l","o","w","R","a","t","e"," ","c","o","u","n","t">>
\* 'hello'
Q11 == <<"h","e","l","l","o">>

Questions == {Q1, Q2, Q3, Q4, Q5, Q6, Q7, Q8, Q9, Q10, Q11}

\* -------------------------------------------------------------- pandas
\* A cell of a numeric, datetime or identifier column: a value or NaN/NaT.
Num(v) == [isna |-> FALSE, v |-> v]
NaN == [isna |-> TRUE, v |-> 0]

\* A cell of the CSV text: a number (or a date, in hours), other text, or empty.
RawNum(v) == [kind |-> "num", v |-> v]
RawText == [kind |-> "text", v |-> 0]
RawEmpty == [kind |-> "empty", v |-> 0]

RawRow(gq, fr, sid, code, bay, t) ==
    [GrossQuantity |-> gq, FlowRate |-> fr, ShipmentID |-> sid,
     ShipmentCode |-> code, BayCode |-> bay, ExitTime |-> t]

REQUIRED_COLUMNS ==
    {"GrossQuantity", "FlowRate", "ShipmentCompartmentID", "BaseProductID",
     "BaseProductCode", "ShipmentID", "ShipmentCode", "ExitTime", "BayCode",
     "ScheduledDate", "CreatedTime"}

\* pd.to_numeric(col, errors="coerce") and pd.to_datetime(col, errors="coerce")
\* on one cell: what does not parse becomes NaN / NaT.
to_numeric(raw) == IF raw.kind = "num" THEN Num(raw.v) ELSE NaN
to_datetime(raw) == IF raw.kind = "num" THEN Num(raw.v) ELSE NaN
\* pd.read_csv on a cell of a column that is not coerced: empty is NaN.
read_cell(raw) == IF raw.kind = "empty" THEN NaN ELSE Num(raw.v)

\* The rows of the model: thousandths for quantities and rates, hours for times.
R1 == RawRow(RawNum(10000), RawNum(1004), RawNum(1), "S1", "B1", RawNum(5))
R2 == RawRow(RawNum(20000), RawNum(2504), RawNum(1), "S1", "B2", RawNum(30))
R3 == RawRow(RawNum(30000), RawNum(2504), RawNum(2), "S2", "B3", RawNum(77))
R4 == RawRow(RawNum(5500), RawText, RawNum(2), "S2", "B1", RawNum(20))
R5 == RawRow(RawNum(1234), RawNum(2500), RawNum(3), "S3", "B2", RawNum(40))
R6 == RawRow(RawText, RawNum(9000), RawNum(3), "S3", "B3", RawNum(50))
R7 == RawRow(RawNum(7000), RawNum(9000), RawNum(4), "S4", "B1", RawText)
R8 == RawRow(RawNum(8000), RawEmpty, RawEmpty, "S5", "B2", RawNum(100))

RawRows == {R1, R2, R3, R4, R5, R6, R7, R8}

\* An uploaded file: bytes pd.read_csv rejects, or a header and rows.
Garbage == [kind |-> "garbage", columns |-> {}, rows |-> <<>>]
Csv(columns, rows) == [kind |-> "csv", columns |-> columns, rows |-> rows]

CsvBodies == UNION {[1..n -> RawRows] : n \in 0..MaxRows}

\* The files the server is sent.
Uploads ==
    {Garbage,
     Csv(REQUIRED_COLUMNS \ {"FlowRate"}, <<R1>>),
     Csv(REQUIRED_COLUMNS, <<>>),
     Csv(REQUIRED_COLUMNS \cup {"Notes"}, <<R4, R8>>),
     Csv(REQUIRED_COLUMNS, <<R3, R1, R2>>)}

ParseRow(r) ==
    [GrossQuantity |-> to_numeric(r.GrossQuantity),
     FlowRate |-> to_numeric(r.FlowRate),
     ShipmentID |-> read_cell(r.ShipmentID),
     ShipmentCode |-> r.ShipmentCode,
     BayCode |-> r.BayCode,
     ExitTime |-> to_datetime(r.ExitTime)]

KeyColumnsPresent(r) ==
    ~r.GrossQuantity.isna /\ ~r.ShipmentID.isna /\ ~r.ExitTime.isna

\* parse_csv_to_dataframe: [ok, df] or the exception it leaves with.
parse_csv_to_dataframe(file) ==
    IF file.kind = "garbage"
    THEN [ok |-> FALSE, http |-> FALSE, exc |-> "ParserError", df |-> <<>>]
    ELSE IF REQUIRED_COLUMNS \ file.columns # {}
    THEN [ok |-> FALSE, http |-> TRUE, exc |-> "Missing required columns", df |-> <<>>]
    ELSE [ok |-> TRUE, http |-> FALSE, exc |-> "",
          df |-> SelectSeq([i \in 1..Len(file.rows) |-> ParseRow(file.rows[i])],
                           KeyColumnsPresent)]

\* ------------------------------------------------------------- results
Text(fmt, args) == [fmt |-> fmt, args |-> args]
EmptyText == Text("", <<>>)
None == Text("<None>", <<>>)

\* dict.get(key, default)
Get(d, k, default) == IF k \in DOMAIN d THEN d[k] ELSE default

\* "{x:.2f}" of a non-negative number of thousandths: hundredths, rounded.
\* (No value of the model ends in 5, where the binary float decides.)
Fmt2(m) == (m + 5) \div 10

RECURSIVE SumCells(_)
\* Series.sum(): NaN cells are skipped, the empty sum is 0.
SumCells(s) ==
    IF Len(s) = 0 THEN 0
    ELSE (IF Head(s).isna THEN 0 ELSE Head(s).v) + SumCells(Tail(s))

Column(df, col) == [i \in 1..Len(df) |-> df[i][col]]

RECURSIVE ArgmaxScan(_, _, _)
ArgmaxScan(s, i, best) ==
    IF i > Len(s) THEN best
    ELSE IF ~s[i].isna /\ (best = 0 \/ s[i].v > s[best].v)
         THEN ArgmaxScan(s, i + 1, i)
         ELSE ArgmaxScan(s, i + 1, best)

RECURSIVE ArgmaxScanLast(_, _, _)
ArgmaxScanLast(s, i, best) ==
    IF i > Len(s) THEN best
    ELSE IF ~s[i].isna /\ (best = 0 \/ s[i].v >= s[best].v)
         THEN ArgmaxScanLast(s, i + 1, i)
         ELSE ArgmaxScanLast(s, i + 1, best)

idxmax_last(s) == ArgmaxScanLast(s, 1, 0)

\* Series.idxmax(): the label of the first occurrence of the maximum, NaN
\* skipped; 0 stands for "no label" (an empty or all-NaN Series).
idxmax(s) == ArgmaxScan(s, 1, 0)

\* Series.nunique(): distinct non-NaN values.
nunique(s) == Cardinality({s[i].v : i \in {j \in 1..Len(s) : ~s[j].isna}})

\* --------------------------------------------------- intent classifier
classify_trend_first(query) ==
    LET q == Lower(query)
    IN  IF \E k \in TrendKeywords : Contains(q, k) THEN "trend"
        ELSE IF \E k \in ForecastKeywords : Contains(q, k) THEN "forecast"
        ELSE "analysis"

\* classify_query_intent
classify_query_intent(query) ==
    LET q == Lower(query)
    IN  IF \E k \in ForecastKeywords : Contains(q, k) THEN "forecast"
        ELSE IF \E k \in TrendKeywords : Contains(q, k) THEN "trend"
        ELSE "analysis"

\* --------------------------------------------------------- rule engine
Unanswered == Text("I could not answer with built-in rules. Trying AI analysis...", <<>>)

Returned(d) == [raised |-> FALSE, exc |-> "", value |-> d]
Raised(e) == [raised |-> TRUE, exc |-> e, value |-> <<>>]

\* answer_with_rules: the dict it returns, or the exception it leaves with.
\* idxmax of an empty Series raises ValueError; of an all-NaN Series it
\* yields NaN, which df.loc rejects with KeyError (pandas 3 raises ValueError
\* in idxmax itself).  Labels are 1-based here, 0-based in the code.
answer_with_rules(df, query) ==
    LET q == Lower(query)
    IN  IF Contains(q, K_total) /\ Contains(q, K_quantity)
        THEN Returned("text" :> Text("Total GrossQuantity: {:,.2f}",
                                     <<Fmt2(SumCells(Column(df, "GrossQuantity")))>>))
        ELSE IF Contains(q, K_highest) /\ (Contains(q, K_flow) \/ Contains(q, K_flowrate))
        THEN LET idx == idxmax(Column(df, "FlowRate"))
             IN  IF Len(df) = 0 THEN Raised("ValueError")
                 ELSE IF idx = 0 THEN Raised("KeyError")
                 ELSE Returned("text" :>
                        Text("Highest FlowRate {:.2f} at Bay {} for Shipment {}.",
                             <<Fmt2(df[idx].FlowRate.v), df[idx].BayCode,
                               df[idx].ShipmentCode>>))
        ELSE IF Contains(q, K_count) /\ (Contains(q, K_shipments) \/ Contains(q, K_shipment))
        THEN Returned("text" :> Text("Unique shipments: {}",
                                     <<nunique(Column(df, "ShipmentID"))>>))
        ELSE Returned("text" :> Unanswered)

\* --------------------------------------------------- fallback responder
\* What the agent service does with one call: the langchain import fails,
\* the transport fails, the agent fails, or it returns a dict with "output"
\* or some other object, whose text has len characters.
AgentOutcomes ==
    {[kind |-> "ImportError", len |-> 0],
     [kind |-> "APIConnectionError", len |-> 0],
     [kind |-> "OutputParserException", len |-> 0],
     [kind |-> "output", len |-> 120],
     [kind |-> "output", len |-> 5000],
     [kind |-> "object", len |-> 5000]}

AgentFailed(agent) == agent.kind \notin {"output", "object"}

\* The slice [:4000]
AgentTextLimit == 4000
Truncate(len) == IF len > AgentTextLimit THEN AgentTextLimit ELSE len

\* {"text": a, **d}: the keys of d override.
DictWithText(a, d) == d @@ ("text" :> a)

\* ai_dataframe_answer, with the OPENAI_API_KEY in force and what the agent does.
ai_dataframe_answer(df, query, key, agent) ==
    IF key = ""
    THEN answer_with_rules(df, query)
    ELSE IF ~AgentFailed(agent)
    THEN Returned("text" :> Text("{}", <<agent.kind, Truncate(agent.len)>>))
    ELSE LET rules == answer_with_rules(df, query)
         IN  IF rules.raised THEN rules
             ELSE Returned(DictWithText(
                     Text("AI analysis failed: {}. Falling back to rules.", <<agent.kind>>),
                     rules.value))

\* ------------------------------------------------------ daily aggregate
DayOf(t) == t \div 24

\* df[[date_col, value_col]].dropna()
dropna(df, date_col, value_col) ==
    SelectSeq([i \in 1..Len(df) |-> [t |-> df[i][date_col], y |-> df[i][value_col]]],
              LAMBDA r : ~r.t.isna /\ ~r.y.isna)

RECURSIVE InsertByTime(_, _)
InsertByTime(r, s) ==
    IF Len(s) = 0 THEN <<r>>
    ELSE IF s[Len(s)].t.v <= r.t.v THEN Append(s, r)
    ELSE Append(InsertByTime(r, SubSeq(s, 1, Len(s) - 1)), s[Len(s)])

RECURSIVE sort_index(_)
\* .set_index(date_col).sort_index()
sort_index(s) ==
    IF Len(s) = 0 THEN <<>>
    ELSE InsertByTime(s[Len(s)], sort_index(SubSeq(s, 1, Len(s) - 1)))

RECURSIVE SumOfDay(_, _)
SumOfDay(s, d) ==
    IF Len(s) = 0 THEN 0
    ELSE (IF DayOf(Head(s).t.v) = d THEN Head(s).y.v ELSE 0) + SumOfDay(Tail(s), d)

\* One bin per day on which a row exists, as a groupby on the day would give.
groupby_day_sum(s) ==
    LET days == {DayOf(s[i].t.v) : i \in 1..Len(s)}
        Rank(d) == Cardinality({e \in days : e <= d})
    IN  [i \in 1..Cardinality(days) |->
            LET d == CHOOSE e \in days : Rank(e) = i
            IN  [day |-> d, sum |-> SumOfDay(s, d)]]

\* .resample("D").sum() of a frame sorted by its DatetimeIndex: one bin for
\* every day from the first row's day to the last row's day, the sum of an
\* empty bin being 0.
resample_D_sum(s) ==
    IF Len(s) = 0 THEN <<>>
    ELSE LET first == DayOf(s[1].t.v)
             last == DayOf(s[Len(s)].t.v)
         IN  [i \in 1..(last - first + 1) |->
                [day |-> first + i - 1, sum |-> SumOfDay(s, first + i - 1)]]

\* The DailyAggregate of trend_chart (agg) and forecast_gross_quantity (series).
DailyAggregate(df, date_col, value_col) ==
    resample_D_sum(sort_index(dropna(df, date_col, value_col)))

\* save_plot_return_url: the reference of the stored chart.
save_plot_return_url(filename_prefix, uuid) ==
    Text("/static/charts/{}_{}.png", <<filename_prefix, uuid>>)

\* uuid.uuid4().hex[:8]
Uuids == {"3f2a9c1e", "b07d44a8"}

\* trend_chart with its default columns.
trend_chart(df, uuid) ==
    LET agg == DailyAggregate(df, "ExitTime", "GrossQuantity")
    IN  IF Len(agg) = 0
        THEN "text" :> Text("No data to plot", <<>>)
        ELSE ("text" :> Text("Trend of {} over time.", <<"GrossQuantity">>))
             @@ ("imageUrl" :> save_plot_return_url("trend_GrossQuantity", uuid))

\* ----------------------------------------------------------- forecaster
\* What the forecasting library does with one call: the import fails, the
\* fit fails, make_future_dataframe/predict/plot fails, or the prediction
\* has the two means last_hist and next_fc.
ProphetOutcomes ==
    {[kind |-> "ImportError", last_hist |-> 0, next_fc |-> 0],
     [kind |-> "FitError", last_hist |-> 0, next_fc |-> 0],
     [kind |-> "PredictError", last_hist |-> 0, next_fc |-> 0]}
    \cup {[kind |-> "ok", last_hist |-> a, next_fc |-> b] : a \in {0, 2}, b \in {1}}

\* ((next_fc - last_hist) / max(abs(last_hist), 1e-6)) * 100, in tenths.
PercentTenths(last_hist, next_fc) ==
    IF last_hist = 0 THEN next_fc * 1000000000
    ELSE ((next_fc - last_hist) * 1000) \div (IF last_hist < 0 THEN -last_hist ELSE last_hist)

\* The periods handed to model.make_future_dataframe, if the call is reached.
forecast_horizon(df, periods, prophet) ==
    IF Len(DailyAggregate(df, "ExitTime", "GrossQuantity")) = 0 THEN <<>>
    ELSE IF prophet.kind \in {"ImportError", "FitError"} THEN <<>>
    ELSE <<periods>>

\* forecast_gross_quantity
forecast_gross_quantity(df, periods, prophet, uuid) ==
    LET series == DailyAggregate(df, "ExitTime", "GrossQuantity")
    IN  IF Len(series) = 0
        THEN "text" :> Text("No data available for forecasting", <<>>)
        ELSE IF prophet.kind # "ok"
        THEN "text" :> Text("Forecasting failed: {}", <<prophet.kind>>)
        ELSE ("text" :> Text("Forecast suggests a {} of approximately {:.1f}% over the next period.",
                             <<IF prophet.next_fc > prophet.last_hist
                               THEN "increase" ELSE "decrease",
                               PercentTenths(prophet.last_hist, prophet.next_fc)>>))
             @@ ("imageUrl" :> save_plot_return_url("forecast_gross_quantity", uuid))

\* ------------------------------------------------------- dataset store
\* DATAFRAME: None, or the DataFrame object of the id-th successful upload.
NoneDF == [isNone |-> TRUE, id |-> 0, rows |-> <<>>]
Dataset(id, rows) == [isNone |-> FALSE, id |-> id, rows |-> rows]

StoreResetOnFailure(store, parsed, id) ==
    IF parsed.ok THEN Dataset(id, parsed.df) ELSE NoneDF

StoreBeforeValidation(store, parsed, id) == Dataset(id, parsed.df)

\* upload_csv: "DATAFRAME = df" is reached only when the parse returned.
StoreAfterUpload(store, parsed, id) ==
    IF parsed.ok THEN Dataset(id, parsed.df) ELSE store

\* ------------------------------------------------------------- schemas
\* The "periods" member of the request body: absent, null or an integer.
Absent == [given |-> FALSE, isnull |-> FALSE, v |-> 0]
JsonNull == [given |-> TRUE, isnull |-> TRUE, v |-> 0]
JsonInt(n) == [given |-> TRUE, isnull |-> FALSE, v |-> n]

PeriodInputs == {Absent, JsonNull, JsonInt(0), JsonInt(-3), JsonInt(7)}

\* periods: Optional[int] = 14
AskRequestDefaultPeriods == 14

\* AskRequest: an absent member takes the default, null is None (NaN here).
AskRequest(question, pin) ==
    [question |-> question,
     periods |-> IF ~pin.given THEN Num(AskRequestDefaultPeriods)
                 ELSE IF pin.isnull THEN NaN
                 ELSE Num(pin.v)]

\* The 14 of "req.periods or 14"
OrPeriods == 14

\* req.periods or 14: None and 0 are falsy, every other integer is kept.
PeriodsOrDefault(p) == IF p.isna \/ p.v = 0 THEN OrPeriods ELSE p.v

NoResp == [status |-> 0, text |-> EmptyText, imageUrl |-> None]

\* AskResponse(text=result.get("text", ""), imageUrl=result.get("imageUrl"))
AskResponse(result) ==
    [status |-> 200, text |-> Get(result, "text", EmptyText),
     imageUrl |-> Get(result, "imageUrl", None)]

NoDatasetError ==
    [status |-> 400, text |-> Text("No dataset loaded. Upload a CSV first.", <<>>),
     imageUrl |-> None]

\* An exception no handler catches: the framework answers 500.
ServerError(exc) ==
    [status |-> 500, text |-> Text("Internal Server Error", <<exc>>), imageUrl |-> None]

EmptyDict == [k \in {} |-> None]

IdleAsk ==
    [pc |-> "idle", question |-> <<>>, periods |-> NaN, startGen |-> 0,
     seen |-> <<>>, handlers |-> <<>>, intent |-> "", agent |-> "",
     horizon |-> <<>>, result |-> EmptyDict, resp |-> NoResp]

IdleUpload == [pc |-> "idle", file |-> Garbage, resp |-> [status |-> 0, rows |-> 0, exc |-> ""]]

FnOff == [pc |-> "off", df |-> <<>>, q |-> <<>>, agg |-> <<>>, horizon |-> <<>>,
          out |-> Returned(EmptyDict)]

\* ---------------------------------------------------------- event loop
EventLoopFreeIfAskAwaited == TRUE

\* Both routes are coroutines of one event loop.  ask has no await: once it
\* runs it keeps the loop until it returns, so no other coroutine starts or
\* resumes while ask is between two of its statements.
EventLoopFree == ask.pc \notin {"dispatch", "fallback"}

\* the text's startswith("I could not answer")
IsUnansweredAlways(text) == TRUE

IsUnanswered(text) == text.fmt = Unanswered.fmt

\* -------------------------------------------------------------- /upload
\* upload_csv up to "await file.read()": the coroutine is suspended.
UploadStart(f) ==
    /\ up.pc \in {"idle", "done"}
    /\ EventLoopFree
    /\ gen < MaxUploads
    /\ up' = [pc |-> "read", file |-> f, resp |-> IdleUpload.resp]
    /\ UNCHANGED <<DATAFRAME, OPENAI_API_KEY, gen, ask, fn>>

\* upload_csv from the resumption to its return or its HTTPException.
UploadFinish ==
    /\ up.pc = "read"
    /\ EventLoopFree
    /\ LET parsed == parse_csv_to_dataframe(up.file)
       IN  /\ DATAFRAME' = StoreAfterUpload(DATAFRAME, parsed, gen + 1)
           /\ gen' = IF parsed.ok THEN gen + 1 ELSE gen
           /\ up' = [up EXCEPT
                       !.pc = "done",
                       !.resp = IF parsed.ok
                                THEN [status |-> 200, rows |-> Len(parsed.df), exc |-> ""]
                                ELSE IF parsed.http
                                THEN [status |-> 400, rows |-> 0, exc |-> parsed.exc]
                                ELSE [status |-> 400, rows |-> 0, exc |-> "Failed to parse CSV"]]
    /\ UNCHANGED <<OPENAI_API_KEY, ask, fn>>

\* ----------------------------------------------------------------- /ask
\* ask, the loaded-check: "if DATAFRAME is None: raise HTTPException(400)".
AskStart(q, pin) ==
    /\ ask.pc \in {"idle", "done"}
    /\ LET req == AskRequest(q, pin)
           begun == [IdleAsk EXCEPT !.question = req.question,
                                    !.periods = req.periods,
                                    !.startGen = gen]
       IN  ask' = IF DATAFRAME.isNone
                  THEN [begun EXCEPT !.pc = "done", !.resp = NoDatasetError]
                  ELSE [begun EXCEPT !.pc = "dispatch", !.seen = <<DATAFRAME>>]
    /\ UNCHANGED <<DATAFRAME, OPENAI_API_KEY, gen, up, fn>>

\* ask, classification and the first handler, each reading the global again.
AskDispatch(prophet, uuid) ==
    /\ ask.pc = "dispatch"
    /\ LET intent == classify_query_intent(ask.question)
           df == DATAFRAME.rows
           read == [ask EXCEPT !.intent = intent, !.seen = Append(@, DATAFRAME)]
       IN  ask' =
             IF intent = "forecast"
             THEN LET periods == PeriodsOrDefault(ask.periods)
                      result == forecast_gross_quantity(df, periods, prophet, uuid)
                  IN  [read EXCEPT !.pc = "done", !.handlers = <<"forecast">>,
                                   !.horizon = forecast_horizon(df, periods, prophet),
                                   !.result = result, !.resp = AskResponse(result)]
             ELSE IF intent = "trend"
             THEN LET result == trend_chart(df, uuid)
                  IN  [read EXCEPT !.pc = "done", !.handlers = <<"trend">>,
                                   !.result = result, !.resp = AskResponse(result)]
             ELSE LET rules == answer_with_rules(df, ask.question)
                  IN  IF rules.raised
                      THEN [read EXCEPT !.pc = "done", !.handlers = <<"rules">>,
                                        !.resp = ServerError(rules.exc)]
                      ELSE IF IsUnanswered(Get(rules.value, "text", EmptyText))
                      THEN [read EXCEPT !.pc = "fallback", !.handlers = <<"rules">>,
                                        !.result = rules.value]
                      ELSE [read EXCEPT !.pc = "done", !.handlers = <<"rules">>,
                                        !.result = rules.value,
                                        !.resp = AskResponse(rules.value)]
    /\ UNCHANGED <<DATAFRAME, OPENAI_API_KEY, gen, up, fn>>

\* ask, the re-dispatch to ai_dataframe_answer and the response.
AskFallback(agent) ==
    /\ ask.pc = "fallback"
    /\ LET answer == ai_dataframe_answer(DATAFRAME.rows, ask.question, OPENAI_API_KEY, agent)
           read == [ask EXCEPT !.pc = "done", !.seen = Append(@, DATAFRAME),
                               !.handlers = Append(@, "fallback"),
                               !.agent = IF OPENAI_API_KEY = "" THEN "" ELSE agent.kind]
       IN  ask' = IF answer.raised
                  THEN [read EXCEPT !.resp = ServerError(answer.exc)]
                  ELSE [read EXCEPT !.result = answer.value,
                                    !.resp = AskResponse(answer.value)]
    /\ UNCHANGED <<DATAFRAME, OPENAI_API_KEY, gen, up, fn>>

\* ------------------------------------------------------- specifications
\* The process after import: no dataset, the key as the environment has it.
Init ==
    /\ DATAFRAME = NoneDF
    /\ OPENAI_API_KEY \in {"", "sk-test"}
    /\ gen = 0
    /\ up = IdleUpload
    /\ ask = IdleAsk
    /\ fn = FnOff

Next ==
    \/ \E f \in Uploads : UploadStart(f)
    \/ UploadFinish
    \/ \E q \in Questions, pin \in PeriodInputs : AskStart(q, pin)
    \/ \E prophet \in ProphetOutcomes, uuid \in Uuids : AskDispatch(prophet, uuid)
    \/ \E agent \in AgentOutcomes : AskFallback(agent)

Spec == Init /\ [][Next]_vars

\* The handlers as functions of a Dataset in force: every Dataset the
\* ingestion yields from a CSV of at most MaxRows rows.
InitFn ==
    /\ DATAFRAME = NoneDF
    /\ OPENAI_API_KEY = ""
    /\ gen = 0
    /\ up = IdleUpload
    /\ ask = IdleAsk
    /\ fn \in {[FnOff EXCEPT !.pc = "input",
                             !.df = parse_csv_to_dataframe(Csv(REQUIRED_COLUMNS, b)).df] :
               b \in CsvBodies}

FnTrend(uuid) ==
    /\ fn.pc = "input"
    /\ fn' = [fn EXCEPT !.pc = "trend",
                        !.agg = DailyAggregate(fn.df, "ExitTime", "GrossQuantity"),
                        !.out = Returned(trend_chart(fn.df, uuid))]
    /\ UNCHANGED <<DATAFRAME, OPENAI_API_KEY, gen, up, ask>>

FnForecast(periods, prophet, uuid) ==
    /\ fn.pc = "input"
    /\ fn' = [fn EXCEPT !.pc = "forecast",
                        !.agg = DailyAggregate(fn.df, "ExitTime", "GrossQuantity"),
                        !.horizon = forecast_horizon(fn.df, periods, prophet),
                        !.out = Returned(forecast_gross_quantity(fn.df, periods, prophet, uuid))]
    /\ UNCHANGED <<DATAFRAME, OPENAI_API_KEY, gen, up, ask>>

FnRules(q) ==
    /\ fn.pc = "input"
    /\ fn' = [fn EXCEPT !.pc = "rules", !.q = q, !.out = answer_with_rules(fn.df, q)]
    /\ UNCHANGED <<DATAFRAME, OPENAI_API_KEY, gen, up, ask>>

NextFn ==
    \/ \E uuid \in Uuids : FnTrend(uuid)
    \/ \E periods \in {1, OrPeriods}, prophet \in ProphetOutcomes, uuid \in Uuids :
          FnForecast(periods, prophet, uuid)
    \/ \E q \in Questions : FnRules(q)

SpecFn == InitFn /\ [][NextFn]_vars

\* =============================================================== claims
Range(s) == {s[i] : i \in 1..Len(s)}

\* The request has passed the loaded-check and its first handler has run.
Dispatched == ask.pc \in {"fallback", "done"} /\ Len(ask.seen) >= 2

HasForecastKeyword(query) ==
    \/ Contains(Lower(query), K_forecast) \/ Contains(Lower(query), K_predict)
    \/ Contains(Lower(query), K_projection) \/ Contains(Lower(query), K_next_)

HasTrendKeyword(query) ==
    \/ Contains(Lower(query), K_trend) \/ Contains(Lower(query), K_over_time)
    \/ Contains(Lower(query), K_time_series) \/ Contains(Lower(query), K_by_day)
    \/ Contains(Lower(query), K_by_month) \/ Contains(Lower(query), K_chart)
    \/ Contains(Lower(query), K_plot) \/ Contains(Lower(query), K_graph)

MatchesTotal(query) ==
    Contains(Lower(query), K_total) /\ Contains(Lower(query), K_quantity)
MatchesHighest(query) ==
    Contains(Lower(query), K_highest) /\ Contains(Lower(query), K_flow)
MatchesCount(query) ==
    Contains(Lower(query), K_count) /\ Contains(Lower(query), K_shipment)
MatchesRule(query) ==
    MatchesTotal(query) \/ MatchesHighest(query) \/ MatchesCount(query)

ForecastTexts ==
    {"No data available for forecasting", "Forecasting failed: {}",
     "Forecast suggests a {} of approximately {:.1f}% over the next period."}
TrendTexts == {"No data to plot", "Trend of {} over time."}
RuleTexts ==
    {"Total GrossQuantity: {:,.2f}", "Unique shipments: {}",
     "Highest FlowRate {:.2f} at Bay {} for Shipment {}."}
FallbackTexts ==
    {Unanswered.fmt, "{}", "AI analysis failed: {}. Falling back to rules."}

\* C1: an ask ends with NoDatasetError (400) exactly when no upload had
\* succeeded when it was issued; an ask issued after a successful upload
\* passes the loaded-check, whatever uploads came in between.
C1_NoDatasetIffNeverUploaded ==
    /\ ask.pc = "done" => (ask.resp.status = 400 <=> ask.startGen = 0)
    /\ ask.pc = "done" /\ ask.resp.status = 400 => ask.resp = NoDatasetError
    /\ ask.pc \in {"dispatch", "fallback"} => ask.startGen > 0

\* C1 witness: an ask issued after a successful upload is answered while the
\* latest upload has failed.
C1_Witness ==
    /\ ask.pc = "done" /\ ask.resp.status = 200 /\ ask.startGen >= 1
    /\ up.pc = "done" /\ up.resp.status = 400

\* C2 (as claimed): every ask issued while a Dataset is loaded ends with a
\* normal AnalysisResult (200), never with another error.
C2_AskNeverCrashes ==
    ask.pc = "done" /\ ask.startGen > 0 => ask.resp.status = 200

\* C3: the intent selects exactly one handler, whose result is returned as
\* it is; the fallback runs exactly when the intent is analysis and no rule
\* pattern matches, and then its result is returned; a question matching a
\* rule pattern never reaches the agent.
C3_OneHandlerPerAsk ==
    Dispatched =>
      /\ ask.intent = "forecast" =>
            ask.handlers = <<"forecast">> /\ ask.resp.text.fmt \in ForecastTexts
      /\ ask.intent = "trend" =>
            ask.handlers = <<"trend">> /\ ask.resp.text.fmt \in TrendTexts
      /\ ask.intent = "analysis" => ask.handlers[1] = "rules"
      /\ ask.pc = "done" =>
            (ask.handlers = <<"rules", "fallback">>
               <=> (ask.intent = "analysis" /\ ~MatchesRule(ask.question)))
      /\ ask.pc = "done" /\ ask.handlers = <<"rules">> /\ ask.resp.status = 200 =>
            ask.resp.text.fmt \in RuleTexts
      /\ ask.pc = "done" /\ ask.handlers = <<"rules", "fallback">> =>
            ask.resp.status = 200 /\ ask.resp.text.fmt \in FallbackTexts
      /\ ask.pc = "done" /\ ask.resp.status = 200 =>
            /\ ask.resp.text = ask.result["text"]
            /\ ask.resp.imageUrl = Get(ask.result, "imageUrl", None)
      /\ MatchesRule(ask.question) => ask.pc = "done" /\ ask.agent = ""
      /\ ask.agent # "" => OPENAI_API_KEY # "" /\ ask.handlers = <<"rules", "fallback">>

\* C3 witness: an unmatched analysis question was answered by the agent.
C3_Witness ==
    /\ ask.pc = "done" /\ ask.handlers = <<"rules", "fallback">>
    /\ ask.agent = "output" /\ ask.resp.text.fmt = "{}"

\* C4 (as claimed): when the agent is configured and its call fails, the
\* returned text carries the description of the failure.
C4_FailureDescriptionKept ==
    ask.pc = "done" /\ ask.agent \in {"ImportError", "APIConnectionError", "OutputParserException"} =>
      /\ ask.resp.status = 200
      /\ \E i \in 1..Len(ask.resp.text.args) : ask.resp.text.args[i] = ask.agent

\* C5: a failed upload leaves DATAFRAME as it was; DATAFRAME changes only
\* in the step that ends a successful upload, to that upload's Dataset.
C5_FailedUploadKeepsStore ==
    [][/\ (up.pc = "read" /\ up'.pc = "done" /\ up'.resp.status = 400) =>
             DATAFRAME' = DATAFRAME
       /\ DATAFRAME' # DATAFRAME =>
             /\ up.pc = "read" /\ up'.pc = "done" /\ up'.resp.status = 200
             /\ ~DATAFRAME'.isNone
             /\ DATAFRAME'.rows = parse_csv_to_dataframe(up.file).df
             /\ \A i \in 1..Len(DATAFRAME'.rows) : KeyColumnsPresent(DATAFRAME'.rows[i])]_vars

\* C5 witness: an upload has failed while a Dataset is in force.
C5_Witness ==
    up.pc = "done" /\ up.resp.status = 400 /\ ~DATAFRAME.isNone /\ gen >= 1

\* C6: every read of the store by one ask (the loaded-check, the rule engine
\* call, the fallback call) yields the same Dataset object with the same
\* rows, never None, and it is the Dataset of the last upload completed
\* before the ask started or of a later one.
C6_SingleSnapshot ==
    /\ ask.pc \in {"dispatch", "fallback"} => Len(ask.seen) >= 1
    /\ \A i \in 1..Len(ask.seen) :
          /\ ~ask.seen[i].isNone
          /\ ask.seen[i] = ask.seen[1]
          /\ ask.seen[i].id >= ask.startGen

\* C6 witness: an ask is between its rule engine call and its fallback call
\* while an upload is suspended in "await file.read()".
C6_Witness ==
    ask.pc = "fallback" /\ Len(ask.seen) = 2 /\ up.pc = "read"

\* C7: forecast keywords win over trend keywords, trend keywords over the
\* rest; a question with a forecast or trend keyword never reaches the rule
\* engine, even if it matches a rule pattern.
C7_ClassifyPriority ==
    Dispatched =>
      /\ ask.intent \in {"forecast", "trend", "analysis"}
      /\ HasForecastKeyword(ask.question) => ask.intent = "forecast"
      /\ ~HasForecastKeyword(ask.question) /\ HasTrendKeyword(ask.question) =>
            ask.intent = "trend"
      /\ ~HasForecastKeyword(ask.question) /\ ~HasTrendKeyword(ask.question) =>
            ask.intent = "analysis"
      /\ HasForecastKeyword(ask.question) \/ HasTrendKeyword(ask.question) =>
            /\ "rules" \notin Range(ask.handlers)
            /\ "fallback" \notin Range(ask.handlers)
            /\ ask.resp.text.fmt \notin RuleTexts
      /\ ask.question = Q1 => ask.intent = "forecast"
      /\ ask.question = Q2 => ask.intent = "forecast"
      /\ ask.question = Q3 => ask.intent = "forecast"
      /\ ask.question = Q4 => ask.intent = "analysis"
      /\ ask.question = Q5 => ask.intent = "trend"

\* C7 witness: a question with a forecast keyword and a trend keyword, and
\* one with a forecast keyword that matches a rule pattern, were answered.
C7_Witness ==
    /\ ask.pc = "done" /\ ask.intent = "forecast"
    /\ HasTrendKeyword(ask.question) /\ ~MatchesRule(ask.question)
    /\ ask.handlers = <<"forecast">>

\* The valid rows of a Dataset, their days and the sum of one day.
ValidRows(df) == {i \in 1..Len(df) : ~df[i].ExitTime.isna /\ ~df[i].GrossQuantity.isna}
ValidDays(df) == {DayOf(df[i].ExitTime.v) : i \in ValidRows(df)}
RECURSIVE SumRows(_, _)
SumRows(df, rows) ==
    IF rows = {} THEN 0
    ELSE LET i == CHOOSE j \in rows : TRUE
         IN  df[i].GrossQuantity.v + SumRows(df, rows \ {i})
DaySum(df, d) == SumRows(df, {i \in ValidRows(df) : DayOf(df[i].ExitTime.v) = d})
MinDay(df) == CHOOSE d \in ValidDays(df) : \A e \in ValidDays(df) : d <= e
MaxDay(df) == CHOOSE d \in ValidDays(df) : \A e \in ValidDays(df) : e <= d

Aggregated == fn.pc \in {"trend", "forecast"}

C9_HorizonPositive ==
    ask.pc = "done" /\ ask.horizon # <<>> => ask.horizon[1] >= 1

\* The rows with a FlowRate, the maximum, and the first row attaining it.
FlowRows(df) == {i \in 1..Len(df) : ~df[i].FlowRate.isna}
MaxFlow(df) ==
    CHOOSE m \in {df[i].FlowRate.v : i \in FlowRows(df)} :
        \A i \in FlowRows(df) : df[i].FlowRate.v <= m
FirstMaxRow(df) ==
    CHOOSE i \in FlowRows(df) :
        /\ df[i].FlowRate.v = MaxFlow(df)
        /\ \A j \in FlowRows(df) : df[j].FlowRate.v = MaxFlow(df) => i <= j

HighestFlowAsked ==
    /\ fn.pc = "rules"
    /\ MatchesHighest(fn.q) /\ ~MatchesTotal(fn.q)
    /\ FlowRows(fn.df) # {}

\* C10: on a 'highest'+'flow' question and a Dataset with a FlowRate, the
\* rule engine reports the maximum FlowRate (2 decimals) with the BayCode
\* and ShipmentCode of the first row, in Dataset order, attaining it.
C10_HighestFlowFirstMax ==
    HighestFlowAsked =>
      /\ ~fn.out.raised
      /\ DOMAIN fn.out.value = {"text"}
      /\ fn.out.value["text"] =
            Text("Highest FlowRate {:.2f} at Bay {} for Shipment {}.",
                 <<Fmt2(MaxFlow(fn.df)), fn.df[FirstMaxRow(fn.df)].BayCode,
                   fn.df[FirstMaxRow(fn.df)].ShipmentCode>>)

\* C10 witness: two rows attain the maximum, with different BayCodes, after a
\* row without FlowRate.
C10_Witness ==
    /\ HighestFlowAsked
    /\ ~fn.out.raised
    /\ \E i, j \in FlowRows(fn.df) :
          /\ i < j
          /\ fn.df[i].FlowRate.v = MaxFlow(fn.df) /\ fn.df[j].FlowRate.v = MaxFlow(fn.df)
          /\ fn.df[i].BayCode # fn.df[j].BayCode
    /\ fn.df[1].FlowRate.isna
====
